---- MODULE Spec2Model ----
(***************************************************************************)
(* Raw-material allocation core of the manufacturing orchestration:        *)
(* reservation at production start, per-batch locking with splitting,      *)
(* priority swaps and releases, together with the MO status transitions    *)
(* that drive them.  Quantities are kilograms at scale 3, i.e. integers    *)
(* in grams.  One raw material is modelled; every MO's product uses it.    *)
(***************************************************************************)
EXTENDS Integers, Sequences, FiniteSets, TLC

VARIABLES
    stop_requests,      \* stop requests that passed the checks and have not yet written
    rework_batches,     \* ReworkBatch rows
    first_login,        \* time of day of each supervisor's first LoginSession of the date, minutes
    logout_response,    \* reassignment summary of the latest supervisor logout
    login_sessions,     \* LoginSession of each supervisor: none, active or closed
    daily_status,       \* DailySupervisorStatus row of today, per process
    change_log,         \* SupervisorChangeLog rows, in creation order
    assigned_supervisor, \* MOProcessExecution.assigned_supervisor, per MO and execution
    scrap_rm_weight,    \* ManufacturingOrder.scrap_rm_weight, grams
    sequence_order,     \* MOProcessExecution.sequence_order, per MO in creation order
    bom,                \* active BOM rows: number of distinct processes of the MO's product
    process_stops,      \* unresolved ProcessStop rows, as <<MO, execution, batch, row>>
    progress,           \* MOProcessExecution.progress_percentage in hundredths of a percent, per MO
    mo_status,          \* ManufacturingOrder.status, per MO
    mo_priority,        \* ManufacturingOrder.priority, per MO (fixed after creation)
    allocs,             \* RawMaterialAllocation rows
    alloc_history,      \* RMAllocationHistory rows
    next_alloc_id,      \* next primary key of RawMaterialAllocation
    heat_available,     \* RMStockBalanceHeat.total_available_quantity_kg
    legacy_available,   \* RMStockBalance.available_quantity
    batches,            \* Batch rows, in creation order
    req,                \* a start request that has read its inputs but not yet written
    mo_history,         \* latest MOStatusHistory row, per MO (the table is append-only)
    executions,         \* MOProcessExecution.status in creation order, per MO
    audited,            \* whether this behaviour carries mo_history and executions
    availability        \* latest response of the RM availability check

vars == <<stop_requests, rework_batches, first_login, logout_response, login_sessions, daily_status, change_log, assigned_supervisor, scrap_rm_weight, sequence_order, bom, process_stops, progress, mo_status, mo_priority, allocs, alloc_history,
          next_alloc_id, heat_available, legacy_available, batches, req,
          mo_history, executions, audited, availability>>

(***************************************************************************)
(* Bounds                                                                  *)
(***************************************************************************)
MaxAllocs == 3
MaxBatches == 2

MOs == {1, 2, 3}
ScenarioMOs == {4, 5}
ProductionMOs == {3}
Priorities == {"low", "medium", "high", "urgent"}
PlannedQuantities == {1000, 2000}
InitialStock == {4080}
PriorityAssignments == {<<"urgent", "high", "low">>,
                        <<"low", "medium", "high">>,
                        <<"medium", "medium", "urgent">>}

(***************************************************************************)
(* Program constants and static MO data                                    *)
(***************************************************************************)
DefaultTolerance == 2

\* MOs 4 and 5 are the two MOs of the 30 kg availability scenario
rm_required_kg == <<2040, 2040, 3060, 30000, 30000>>

tolerance_percentage == <<2, 2, 2, 2, 2>>

StatusChoices == {"on_hold", "mo_approved", "in_progress", "rejected"}

priority_order == [p \in Priorities |->
    CASE p = "low" -> 1 [] p = "medium" -> 2 [] p = "high" -> 3 [] OTHER -> 4]

\* position of a priority string in the database's text ordering
PriorityTextRank == [p \in Priorities |->
    CASE p = "high" -> 1 [] p = "low" -> 2 [] p = "medium" -> 3 [] OTHER -> 4]

NoMO == 0
NoReq == [phase |-> "idle"]
NoHistory == [from_status |-> "none", to_status |-> "none"]
NoAvailability == [mo |-> NoMO]

\* every status of utils.enums.MOStatusChoices that a handler names
MOStatusChoices == StatusChoices \cup {"rm_allocated", "completed", "stopped"}

\* number of distinct BOM processes of each MO's product
bom_processes == <<1, 1, 2>>
MaxProcesses == 3

\* users with the supervisor role; NoUser is a null foreign key
Supervisors == {"sup1", "sup2"}
NoUser == "None"

\* WorkCenterSupervisorShift of the current shift, per process (work center)
\* times of day are minutes after midnight; NoTime is a missing login
NoTime == -1
CheckInDeadline == 540
LoginTimes == {539, 540, 541}

NoShiftConfig == [primary_supervisor |-> NoUser, backup_supervisor |-> NoUser]
WorkCenterSupervisorShift ==
    <<[primary_supervisor |-> "sup1", backup_supervisor |-> "sup2"],
      NoShiftConfig,
      NoShiftConfig>>

\* active MOSupervisorOverride of the current shift, per process, the same
\* for every MO
MOSupervisorOverride ==
    <<NoShiftConfig,
      NoShiftConfig,
      [primary_supervisor |-> "sup2", backup_supervisor |-> "sup1"]>>

NoDailyStatus == [active_supervisor |-> NoUser, is_present |-> FALSE]
NoLogout == [user |-> NoUser, reassignment_summary |-> <<>>, raised |-> FALSE]
MaxLog == 4

\* ManufacturingOrder.quantity
quantity == <<2000, 2000, 3000>>

(***************************************************************************)
(* Helpers                                                                 *)
(***************************************************************************)
RECURSIVE SumQty(_)
SumQty(S) ==
    IF S = {} THEN 0
    ELSE LET x == CHOOSE y \in S : TRUE IN x.qty + SumQty(S \ {x})

\* rows of S as a sequence in ascending primary-key order; allocated_at is
\* set on insert, so this is also the allocated_at order
RECURSIVE SortById(_)
SortById(S) ==
    IF S = {} THEN <<>>
    ELSE LET x == CHOOSE y \in S : \A z \in S : y.id <= z.id
         IN <<x>> \o SortById(S \ {x})

\* the database as one value, so that a handler is a composition of steps
DB == [stop_requests |-> stop_requests, rework_batches |-> rework_batches, first_login |-> first_login, logout_response |-> logout_response, login_sessions |-> login_sessions, daily_status |-> daily_status, change_log |-> change_log, assigned_supervisor |-> assigned_supervisor, scrap_rm_weight |-> scrap_rm_weight, sequence_order |-> sequence_order, bom |-> bom, process_stops |-> process_stops, progress |-> progress, mo_status |-> mo_status, allocs |-> allocs,
       alloc_history |-> alloc_history, next_alloc_id |-> next_alloc_id,
       heat |-> heat_available, legacy |-> legacy_available,
       batches |-> batches, mo_history |-> mo_history,
       executions |-> executions]

Commit(d) ==
    /\ d.next_alloc_id <= MaxAllocs + 1
    /\ mo_status' = d.mo_status
    /\ allocs' = d.allocs
    /\ alloc_history' = d.alloc_history
    /\ next_alloc_id' = d.next_alloc_id
    /\ heat_available' = d.heat
    /\ legacy_available' = d.legacy
    /\ batches' = d.batches
    /\ mo_history' = IF audited THEN d.mo_history ELSE mo_history
    /\ executions' = IF audited THEN d.executions ELSE executions
    /\ audited' = audited
    /\ availability' = availability
    /\ stop_requests' = IF audited THEN d.stop_requests ELSE stop_requests
    /\ rework_batches' = IF audited THEN d.rework_batches ELSE rework_batches
    /\ first_login' = IF audited THEN d.first_login ELSE first_login
    /\ logout_response' = IF audited THEN d.logout_response ELSE logout_response
    /\ login_sessions' = IF audited THEN d.login_sessions ELSE login_sessions
    /\ daily_status' = IF audited THEN d.daily_status ELSE daily_status
    /\ change_log' = IF audited THEN d.change_log ELSE change_log
    /\ assigned_supervisor' = IF audited THEN d.assigned_supervisor ELSE assigned_supervisor
    /\ scrap_rm_weight' = IF audited THEN d.scrap_rm_weight ELSE scrap_rm_weight
    /\ sequence_order' = IF audited THEN d.sequence_order ELSE sequence_order
    /\ bom' = IF audited THEN d.bom ELSE bom
    /\ process_stops' = IF audited THEN d.process_stops ELSE process_stops
    /\ progress' = IF audited THEN d.progress ELSE progress

\* MOStatusHistory.objects.create(mo, from_status, to_status, changed_by)
LogStatus(d, m, from, to) ==
    [d EXCEPT !.mo_history[m] = [from_status |-> from, to_status |-> to]]

NewAlloc(id, m, q, st, swappable, parent) ==
    [id |-> id, mo |-> m, qty |-> q, status |-> st,
     can_be_swapped |-> swappable, swapped_to |-> NoMO, split_from |-> parent]

HistoryRow(a, act, from, to, q, why) ==
    [allocation |-> a, action |-> act, from_mo |-> from, to_mo |-> to,
     quantity_kg |-> q, reason |-> why]

ActiveOf(d, m) == {a \in d.allocs : a.mo = m /\ a.status \in {"reserved", "locked"}}

(***************************************************************************)
(* RawMaterialAllocation model methods                                     *)
(***************************************************************************)
\* allocation.lock_allocation(user): reserved -> locked, stock untouched
lock_allocation(d, a) ==
    IF a.status = "reserved"
    THEN [d |-> [d EXCEPT !.allocs = (@ \ {a}) \cup
                    {[a EXCEPT !.status = "locked", !.can_be_swapped = FALSE]}],
          success |-> TRUE]
    ELSE [d |-> d, success |-> FALSE]

\* allocation.release_allocation(): reserved/locked -> released, quantity
\* returned to stock
release_allocation(d, a) ==
    IF a.status \in {"reserved", "locked"}
    THEN [d |-> [d EXCEPT !.allocs = (@ \ {a}) \cup
                    {[a EXCEPT !.status = "released", !.can_be_swapped = FALSE]},
                          !.heat = @ + a.qty],
          success |-> TRUE]
    ELSE [d |-> d, success |-> FALSE]

\* variant: swap_to_mo without the priority comparison
swap_to_mo_any_priority(d, a, t, prio) ==
    IF /\ a.status = "reserved"
       /\ a.can_be_swapped
       /\ d.mo_status[a.mo] = "on_hold"
       /\ a.mo # t
    THEN [d |-> [d EXCEPT !.allocs = (@ \ {a}) \cup
                    {[a EXCEPT !.status = "swapped", !.can_be_swapped = FALSE,
                               !.swapped_to = t],
                     NewAlloc(d.next_alloc_id, t, a.qty, "reserved", TRUE, 0)},
                          !.next_alloc_id = @ + 1],
          success |-> TRUE]
    ELSE [d |-> d, success |-> FALSE]

\* allocation.swap_to_mo(target_mo, user, reason): the original row becomes
\* swapped and points at the target, a mirror reserved row appears on the target
swap_to_mo(d, a, t, prio) ==
    IF /\ a.status = "reserved"
       /\ a.can_be_swapped
       /\ d.mo_status[a.mo] = "on_hold"
       /\ priority_order[prio[a.mo]] < priority_order[prio[t]]
    THEN [d |-> [d EXCEPT !.allocs = (@ \ {a}) \cup
                    {[a EXCEPT !.status = "swapped", !.can_be_swapped = FALSE,
                               !.swapped_to = t],
                     NewAlloc(d.next_alloc_id, t, a.qty, "reserved", TRUE, 0)},
                          !.next_alloc_id = @ + 1],
          success |-> TRUE]
    ELSE [d |-> d, success |-> FALSE]

(***************************************************************************)
(* RMAllocationService                                                     *)
(***************************************************************************)
\* QuerySet.first() on an unordered queryset orders by primary key
First(S) == CHOOSE y \in S : \A z \in S : y.id <= z.id

\* variant: the reservation takes its quantity out of the heat stock balance
allocate_rm_for_mo_decrementing(d, m) ==
    LET required == rm_required_kg[m]
        existing == ActiveOf(d, m)
        fresh    == NewAlloc(d.next_alloc_id, m, required, "reserved", TRUE, 0)
    IN  IF required <= 0 THEN [d |-> d, raised |-> TRUE, result |-> {}]
        ELSE IF d.heat < required THEN [d |-> d, raised |-> TRUE, result |-> {}]
        ELSE IF existing # {} /\ First(existing).qty >= required
             THEN [d |-> d, raised |-> FALSE, result |-> {First(existing)}]
        ELSE [d |-> [d EXCEPT
                       !.allocs = @ \cup {fresh},
                       !.next_alloc_id = @ + 1,
                       !.heat = @ - required,
                       !.alloc_history = @ \cup
                           {HistoryRow(fresh.id, "reserved", NoMO, m, required, "initial")}],
              raised |-> FALSE, result |-> {fresh}]

allocate_rm_for_mo(d, m) ==
    LET required == rm_required_kg[m]
        existing == ActiveOf(d, m)
        fresh    == NewAlloc(d.next_alloc_id, m, required, "reserved", TRUE, 0)
    IN  IF required <= 0 THEN [d |-> d, raised |-> TRUE, result |-> {}]
        ELSE IF d.heat < required THEN [d |-> d, raised |-> TRUE, result |-> {}]
        ELSE IF existing # {} /\ First(existing).qty >= required
             THEN [d |-> d, raised |-> FALSE, result |-> {First(existing)}]
        ELSE [d |-> [d EXCEPT
                       !.allocs = @ \cup {fresh},
                       !.next_alloc_id = @ + 1,
                       !.alloc_history = @ \cup
                           {HistoryRow(fresh.id, "reserved", NoMO, m, required, "initial")}],
              raised |-> FALSE, result |-> {fresh}]

\* the candidate rows of find_swappable_allocations, before ordering
SwappableSet(d, t, prio) ==
    {a \in d.allocs :
        /\ a.status = "reserved"
        /\ a.can_be_swapped
        /\ d.mo_status[a.mo] = "on_hold"
        /\ priority_order[prio[a.mo]] < priority_order[prio[t]]}

\* order_by('mo__priority', 'allocated_at'): priority is a text column
SwapBefore(x, y, prio) ==
    \/ PriorityTextRank[prio[x.mo]] < PriorityTextRank[prio[y.mo]]
    \/ /\ PriorityTextRank[prio[x.mo]] = PriorityTextRank[prio[y.mo]]
       /\ x.id <= y.id

RECURSIVE SwapOrder(_, _)
SwapOrder(S, prio) ==
    IF S = {} THEN <<>>
    ELSE LET x == CHOOSE y \in S : \A z \in S : SwapBefore(y, z, prio)
         IN <<x>> \o SwapOrder(S \ {x}, prio)

find_swappable_allocations(d, t, prio) == SwapOrder(SwappableSet(d, t, prio), prio)

RECURSIVE AutoSwapLoop(_, _, _, _, _)
AutoSwapLoop(d, cands, t, total, prio) ==
    IF cands = <<>> \/ total >= rm_required_kg[t]
    THEN [d |-> d, total |-> total]
    ELSE LET a == Head(cands)
             r == swap_to_mo(d, a, t, prio)
         IN  IF r.success
             THEN AutoSwapLoop(
                     [r.d EXCEPT !.alloc_history = @ \cup
                         {HistoryRow(a.id, "swapped", a.mo, t, a.qty, "auto")}],
                     Tail(cands), t, total + a.qty, prio)
             ELSE AutoSwapLoop(d, Tail(cands), t, total, prio)

\* the function returns a result dictionary on both outcomes; the atomic
\* block is left normally, so its writes are committed either way
auto_swap_allocations(d, t, prio) ==
    LET swappable == find_swappable_allocations(d, t, prio)
    IN  IF swappable = <<>>
        THEN [d |-> d, success |-> FALSE]
        ELSE LET r == AutoSwapLoop(d, swappable, t, 0, prio)
             IN [d |-> r.d, success |-> r.total >= rm_required_kg[t]]

RECURSIVE ReleaseLoop(_, _, _)
ReleaseLoop(d, rows, m) ==
    IF rows = <<>> THEN d
    ELSE LET a == Head(rows)
             r == release_allocation(d, a)
         IN  IF r.success
             THEN ReleaseLoop(
                     [r.d EXCEPT !.alloc_history = @ \cup
                         {HistoryRow(a.id, "released", m, NoMO, a.qty, "released")}],
                     Tail(rows), m)
             ELSE ReleaseLoop(d, Tail(rows), m)

release_allocations_for_mo(d, m) == ReleaseLoop(d, SortById(ActiveOf(d, m)), m)

\* coil product: planned_quantity is grams; kg = grams/1000 * (1 + tolerance/100).
\* A zero tolerance is falsy and falls back to the default.
BatchRmRequired(m, planned) ==
    LET tolerance == IF tolerance_percentage[m] # 0 THEN tolerance_percentage[m]
                     ELSE DefaultTolerance
    IN (planned * (100 + tolerance)) \div 100

\* variant: the split forgets to reduce the parent row
SplitAllocation_parent_kept(d, a, m, remaining_needed) ==
    LET child == [NewAlloc(d.next_alloc_id, m, remaining_needed, "locked", FALSE, a.id)
                     EXCEPT !.split_from = a.id]
    IN [d EXCEPT !.allocs = @ \cup {child},
                 !.next_alloc_id = @ + 1,
                 !.heat = @ - remaining_needed,
                 !.alloc_history = @ \cup
                     {HistoryRow(child.id, "locked", NoMO, m, remaining_needed, "batch_split")}]

\* the split branch of the locking loop, for one reserved row
SplitAllocation(d, a, m, remaining_needed) ==
    LET child == [NewAlloc(d.next_alloc_id, m, remaining_needed, "locked", FALSE, a.id)
                     EXCEPT !.split_from = a.id]
        remaining_qty == a.qty - remaining_needed
        rest == IF remaining_qty > 0
                THEN {[a EXCEPT !.qty = remaining_qty]}
                ELSE {}
    IN [d EXCEPT !.allocs = (@ \ {a}) \cup rest \cup {child},
                 !.next_alloc_id = @ + 1,
                 !.heat = @ - remaining_needed,
                 !.alloc_history = @ \cup
                     {HistoryRow(child.id, "locked", NoMO, m, remaining_needed, "batch_split")}]

RECURSIVE LockLoop(_, _, _, _, _)
LockLoop(d, rows, m, need, total_locked) ==
    IF rows = <<>> \/ total_locked >= need THEN d
    ELSE LET a == Head(rows)
             remaining_needed == need - total_locked
         IN  IF a.qty > remaining_needed /\ remaining_needed > 0
             THEN LockLoop(SplitAllocation(d, a, m, remaining_needed),
                           Tail(rows), m, need, total_locked + remaining_needed)
             ELSE LET r == lock_allocation(d, a)
                  IN  IF r.success
                      THEN LockLoop(
                             [r.d EXCEPT !.alloc_history = @ \cup
                                 {HistoryRow(a.id, "locked", NoMO, m, a.qty, "batch_lock")}],
                             Tail(rows), m, need, total_locked + a.qty)
                      ELSE LockLoop(d, Tail(rows), m, need, total_locked)

lock_allocations_for_batch(d, b) ==
    LET m == d.batches[b].mo
        need == BatchRmRequired(m, d.batches[b].planned_quantity)
        reserved == {a \in d.allocs : a.mo = m /\ a.status = "reserved"}
    IN  IF need <= 0 \/ reserved = {} THEN d
        ELSE LockLoop(d, SortById(reserved), m, need, 0)

Max(a, b) == IF a >= b THEN a ELSE b

\* read-only; swappable allocations count as available
check_rm_availability_for_mo(d, m, prio) ==
    LET required_quantity  == rm_required_kg[m]
        current_allocated  == SumQty(ActiveOf(d, m))
        available_in_stock == d.heat
        swappable_quantity == SumQty(SwappableSet(d, m, prio))
        total_available    == current_allocated + available_in_stock + swappable_quantity
    IN [mo |-> m,
        available |-> (total_available >= required_quantity),
        required_kg |-> required_quantity,
        current_allocated_kg |-> current_allocated,
        available_in_stock_kg |-> available_in_stock,
        swappable_kg |-> swappable_quantity,
        total_available_kg |-> total_available,
        shortage_kg |-> Max(0, required_quantity - total_available),
        can_swap |-> (swappable_quantity > 0)]

(***************************************************************************)
(* Start endpoints.  Each reads the MO and its allocations and then, in    *)
(* later database statements, reserves and writes stock and status; no row *)
(* is locked in between, so another request can commit between the two.    *)
(***************************************************************************)
\* variant: production start accepted in every status
StartGuard_unchecked(ep, m) ==
    CASE ep = "start_mo" -> mo_status[m] \in {"mo_approved", "gm_approved",
                                               "rm_allocated", "on_hold"}
      [] OTHER -> TRUE

StartGuard(ep, m) ==
    CASE ep = "start_production" -> mo_status[m] = "mo_approved"
      [] ep = "start_mo" -> mo_status[m] \in {"mo_approved", "gm_approved",
                                               "rm_allocated", "on_hold"}
      [] OTHER -> TRUE

\* what the handler holds in memory after mo = get_object() and the
\* existing_allocations query
Reads(ep, m, ns) ==
    [phase |-> "read", endpoint |-> ep, mo |-> m, new_status |-> ns,
     had_none |-> ({a \in allocs : a.mo = m} = {}),
     old_status |-> IF audited THEN mo_status[m] ELSE "unread"]

\* reserve and compute the stock decrement of "if not existing_allocations.exists()"
ReserveIfNone(d, m) ==
    LET r == allocate_rm_for_mo(d, m)
    IN  IF r.raised THEN [d |-> d, dec |-> 0]
        ELSE [d |-> r.d, dec |-> SumQty(r.result)]

\* the else branch of _handle_start_production: top up a partial reservation
ReserveIfPartial(d, m) ==
    IF SumQty(ActiveOf(d, m)) < rm_required_kg[m]
    THEN [d |-> allocate_rm_for_mo(d, m).d, dec |-> 0]
    ELSE [d |-> d, dec |-> 0]

ReserveEffect(d, rq) ==
    CASE rq.endpoint = "start_production" ->
            IF rq.had_none THEN ReserveIfNone(d, rq.mo) ELSE ReserveIfPartial(d, rq.mo)
      [] rq.endpoint = "start_mo" ->
            IF rq.had_none THEN ReserveIfNone(d, rq.mo) ELSE [d |-> d, dec |-> 0]
      [] OTHER ->
            IF rq.new_status = "in_progress" /\ rq.had_none
            THEN ReserveIfNone(d, rq.mo)
            ELSE [d |-> d, dec |-> 0]

\* stock_balance.available_quantity -= total_reserved_kg; mo.save()
\* start_mo only: create the process executions from the BOM if none exist
InitializeIfNone(d, rq) ==
    IF rq.endpoint = "start_mo" /\ d.executions[rq.mo] = <<>>
    THEN [d EXCEPT !.executions[rq.mo] = [i \in 1..d.bom[rq.mo] |-> "pending"],
                   !.progress[rq.mo] = [i \in 1..d.bom[rq.mo] |-> 0],
                   !.sequence_order[rq.mo] = [i \in 1..d.bom[rq.mo] |-> i],
                   !.assigned_supervisor[rq.mo] = [i \in 1..d.bom[rq.mo] |-> NoUser]]
    ELSE d

FinishEffect(d, rq, dec) ==
    InitializeIfNone(
        LogStatus([d EXCEPT !.legacy = @ - dec,
                            !.mo_status[rq.mo] = rq.new_status],
                  rq.mo, rq.old_status, rq.new_status),
        rq)

StartAtomic(ep, m, ns) ==
    /\ StartGuard(ep, m)
    /\ LET rq == Reads(ep, m, ns)
           r  == ReserveEffect(DB, rq)
       IN Commit(FinishEffect(r.d, rq, r.dec))
    /\ UNCHANGED <<mo_priority, req>>

_handle_start_production(m) == StartAtomic("start_production", m, "in_progress")

start_mo(m) == StartAtomic("start_mo", m, "in_progress")

change_status(m, ns) == StartAtomic("change_status", m, ns)

\* a start request performs its reads and is then overtaken
StartBegin(ep, m, ns) ==
    /\ req = NoReq
    /\ StartGuard(ep, m)
    /\ req' = Reads(ep, m, ns)
    /\ UNCHANGED <<progress, process_stops, bom, sequence_order, scrap_rm_weight, assigned_supervisor, change_log, daily_status, login_sessions, logout_response, first_login, rework_batches, stop_requests, mo_status, mo_priority, allocs, alloc_history,
                   next_alloc_id, heat_available, legacy_available, batches,
                   mo_history, executions, audited, availability>>

\* the overtaken request resumes: reserve, decrement, save
StartFinish ==
    /\ req.phase = "read"
    /\ LET r == ReserveEffect(DB, req)
       IN Commit(FinishEffect(r.d, req, r.dec))
    /\ req' = NoReq
    /\ UNCHANGED mo_priority

(***************************************************************************)
(* Other MO transitions                                                    *)
(***************************************************************************)
_handle_approve_mo(m) ==
    /\ mo_status[m] = "on_hold"
    /\ Commit(LogStatus([DB EXCEPT !.mo_status[m] = "mo_approved"],
                         m, mo_status[m], "mo_approved"))
    /\ UNCHANGED <<mo_priority, req>>

_handle_reject_mo(m) ==
    /\ mo_status[m] # "rejected"
    /\ Commit(release_allocations_for_mo(
                LogStatus([DB EXCEPT !.mo_status[m] = "rejected"],
                          m, mo_status[m], "rejected"), m))
    /\ UNCHANGED <<mo_priority, req>>

(***************************************************************************)
(* Batches                                                                 *)
(***************************************************************************)
BatchesOf(d, m) == {b \in DOMAIN d.batches : d.batches[b].mo = m}

\* grams: the serializer's 0.05 kg for coil material
CoilThreshold == 50

\* ManufacturingOrderDetailSerializer.get_remaining_rm, in grams
get_remaining_rm(d, m) ==
    LET RECURSIVE Released(_)
        Released(k) == IF k = 0 THEN 0
                       ELSE Released(k - 1) +
                            (IF d.batches[k].mo = m
                             THEN BatchRmRequired(m, d.batches[k].planned_quantity)
                             ELSE 0)
    IN Max(0, rm_required_kg[m] - Released(Len(d.batches)))

\* cumulative raw material of the MO's batches, in grams
CumulativeBatchRm(d, m) ==
    LET RECURSIVE Released(_)
        Released(k) == IF k = 0 THEN 0
                       ELSE Released(k - 1) +
                            (IF d.batches[k].mo = m
                             THEN BatchRmRequired(m, d.batches[k].planned_quantity)
                             ELSE 0)
    IN Released(Len(d.batches))

get_can_create_batch(d, m) == get_remaining_rm(d, m) > CoilThreshold

\* batches of m whose notes say they completed process i
CompletedBatches(d, m, i) ==
    {b \in BatchesOf(d, m) : d.batches[b].process_status[i] = "completed"}

\* (completed_batches / total_batches) * 100, in hundredths of a percent
ProgressPercentage(d, m, i) ==
    (Cardinality(CompletedBatches(d, m, i)) * 10000) \div Cardinality(BatchesOf(d, m))

\* the new batch's progress update of every process execution of the MO
RecalculateProgress(d, m) ==
    [d EXCEPT !.progress[m] = [i \in DOMAIN @ |-> ProgressPercentage(d, m, i)]]

\* the regression left out: executions keep their status
RevertCompleted_none(d, m) == d

\* a new batch has completed no process, so every completed process
\* execution of the MO goes back to in_progress
RevertCompleted(d, m) ==
    [d EXCEPT !.executions[m] =
        [i \in DOMAIN @ |-> IF @[i] = "completed" THEN "in_progress" ELSE @[i]]]

\* BatchDetailSerializer.create
create_batch(m, planned) ==
    /\ Len(batches) < MaxBatches
    /\ mo_status[m] \in {"on_hold", "in_progress"}
    /\ LET d1 == [DB EXCEPT !.batches = Append(@,
                       [mo |-> m, planned_quantity |-> planned,
                        status |-> "created", verified |-> FALSE,
                        actual_quantity_completed |-> 0,
                        process_status |-> [i \in 1..bom_processes[m] |-> "none"]])]
           d2 == IF Cardinality(BatchesOf(d1, m)) = 1
                 THEN LogStatus([d1 EXCEPT !.mo_status[m] = "in_progress"],
                                m, "on_hold", "in_progress")
                 ELSE d1
       IN Commit(RecalculateProgress(RevertCompleted(d2, m), m))
    /\ UNCHANGED <<mo_priority, req>>

verify_batch(b) ==
    /\ b \in DOMAIN batches
    /\ batches[b].status = "created"
    /\ ~batches[b].verified
    /\ Commit([DB EXCEPT !.batches[b].verified = TRUE])
    /\ UNCHANGED <<mo_priority, req>>

start_batch(b) ==
    /\ b \in DOMAIN batches
    /\ batches[b].status = "created"
    /\ batches[b].verified
    /\ Commit([lock_allocations_for_batch(DB, b)
                  EXCEPT !.batches[b].status = "in_process"])
    /\ UNCHANGED <<mo_priority, req>>

\* BatchProcessViewSet.start_batch_process: starts execution i for batch b
start_batch_process(b, i) ==
    /\ b \in DOMAIN batches
    /\ i \in DOMAIN executions[batches[b].mo]
    /\ LET m  == batches[b].mo
           d1 == IF executions[m][i] = "pending"
                 THEN [DB EXCEPT !.executions[m][i] = "in_progress"]
                 ELSE DB
           d2 == IF batches[b].status = "created"
                 THEN [lock_allocations_for_batch(d1, b)
                          EXCEPT !.batches[b].status = "in_process"]
                 ELSE d1
       IN Commit([d2 EXCEPT !.batches[b].process_status[i] = "in_progress"])
    /\ UNCHANGED <<mo_priority, req>>

CompletedQuantity(d, m) ==
    LET RECURSIVE Sum(_)
        Sum(k) == IF k = 0 THEN 0
                  ELSE Sum(k - 1) +
                       (IF d.batches[k].mo = m /\ d.batches[k].status = "completed"
                        THEN d.batches[k].actual_quantity_completed ELSE 0)
    IN Sum(Len(d.batches))

\* BatchViewSet.complete_batch; actual is the request's actual_quantity_completed
complete_batch(b, actual) ==
    /\ b \in DOMAIN batches
    /\ batches[b].status = "in_process"
    /\ LET m  == batches[b].mo
           d1 == [DB EXCEPT !.batches[b].status = "completed",
                           !.batches[b].actual_quantity_completed = actual]
           d2 == IF CompletedQuantity(d1, m) >= quantity[m]
                 THEN LogStatus([d1 EXCEPT !.mo_status[m] = "completed"],
                                m, "in_progress", "completed")
                 ELSE d1
       IN Commit(d2)
    /\ UNCHANGED <<mo_priority, req>>

(***************************************************************************)
(* Process executions                                                      *)
(***************************************************************************)
\* SupervisorChangeLog.objects.create(mo_process_execution, from_supervisor,
\* to_supervisor, change_reason)
ChangeLogRow(m, k, from, to, why) ==
    [mo |-> m, execution |-> k, from_supervisor |-> from, to_supervisor |-> to,
     change_reason |-> why]

\* MOProcessExecution.auto_assign_supervisor: MO override, then today's
\* daily status, then the shift's default primary; a row is logged only when
\* a supervisor was found
auto_assign_supervisor(d, m, k) ==
    LET mo_override == MOSupervisorOverride[k]
        status == d.daily_status[k]
        shift_config == WorkCenterSupervisorShift[k]
        step1 == IF mo_override = NoShiftConfig
                 THEN [sup |-> NoUser, reason |-> "initial_assignment"]
                 ELSE IF status # NoDailyStatus
                         /\ status.active_supervisor = mo_override.primary_supervisor
                 THEN [sup |-> mo_override.primary_supervisor,
                       reason |-> "initial_assignment"]
                 ELSE IF status # NoDailyStatus
                         /\ status.active_supervisor = mo_override.backup_supervisor
                 THEN [sup |-> mo_override.backup_supervisor,
                       reason |-> "attendance_absence"]
                 ELSE [sup |-> mo_override.primary_supervisor,
                       reason |-> "initial_assignment"]
        step2 == IF step1.sup # NoUser THEN step1
                 ELSE IF status # NoDailyStatus
                 THEN [sup |-> status.active_supervisor,
                       reason |-> IF status.is_present THEN "initial_assignment"
                                  ELSE "attendance_absence"]
                 ELSE IF shift_config # NoShiftConfig
                 THEN [sup |-> shift_config.primary_supervisor,
                       reason |-> "initial_assignment"]
                 ELSE step1
    IN IF step2.sup # NoUser
       THEN [d EXCEPT !.assigned_supervisor[m][k] = step2.sup,
                      !.change_log = Append(@,
                          ChangeLogRow(m, k, d.assigned_supervisor[m][k],
                                       step2.sup, step2.reason))]
       ELSE d

\* for execution in created_executions: execution.auto_assign_supervisor()
RECURSIVE AutoAssignCreated(_, _, _, _)
AutoAssignCreated(d, m, k, last) ==
    IF k > last THEN d
    ELSE AutoAssignCreated(auto_assign_supervisor(d, m, k), m, k + 1, last)

\* get_or_create per distinct BOM process: execution k belongs to process k,
\* so the processes beyond Len(executions[m]) have no execution yet; sequence
\* starts at 1 and advances only when an execution was created
initialize_processes(m) ==
    /\ mo_status[m] \in {"mo_approved", "rm_allocated", "in_progress"}
    /\ bom[m] > 0
    /\ LET created == bom[m] - Len(executions[m])
           d1 == [DB EXCEPT !.executions[m] = @ \o [k \in 1..created |-> "pending"],
                            !.progress[m] = @ \o [k \in 1..created |-> 0],
                            !.sequence_order[m] = @ \o [k \in 1..created |-> k],
                            !.assigned_supervisor[m] = @ \o [k \in 1..created |-> NoUser]]
           d1a == AutoAssignCreated(d1, m, Len(executions[m]) + 1, bom[m])
           d2 == IF mo_status[m] \in {"mo_approved", "rm_allocated"}
                 THEN [d1a EXCEPT !.mo_status[m] = "in_progress"]
                 ELSE d1a
       IN Len(d2.change_log) <= MaxLog /\ Commit(d2)
    /\ UNCHANGED <<mo_priority, req>>

start_process(m, i) ==
    /\ i \in DOMAIN executions[m]
    /\ executions[m][i] = "pending"
    /\ Commit([DB EXCEPT !.executions[m][i] = "in_progress"])
    /\ UNCHANGED <<mo_priority, req>>

_update_process_progress_based_on_batches(d, m, i) ==
    IF BatchesOf(d, m) = {}
    THEN [d EXCEPT !.progress[m][i] = 0]
    ELSE LET d1 == [d EXCEPT !.progress[m][i] = ProgressPercentage(d, m, i)]
         IN  IF d.executions[m][i] = "completed" /\ CompletedBatches(d, m, i) # BatchesOf(d, m)
             THEN [d1 EXCEPT !.executions[m][i] = "in_progress"]
             ELSE d1

\* the request arrives with every step execution of the process completed
complete_process(m, i) ==
    /\ i \in DOMAIN executions[m]
    /\ executions[m][i] = "in_progress" \/ mo_status[m] = "stopped"
    /\ CompletedBatches(DB, m, i) = BatchesOf(DB, m)
    /\ Commit(_update_process_progress_based_on_batches(
                [DB EXCEPT !.executions[m][i] = "completed",
                           !.progress[m][i] = 10000], m, i))
    /\ UNCHANGED <<mo_priority, req>>

\* request progress_percentage p, accepted when 0 <= p <= 100
update_progress(m, i, p) ==
    /\ i \in DOMAIN executions[m]
    /\ 0 <= p /\ p <= 10000
    /\ Commit([DB EXCEPT !.progress[m][i] = p])
    /\ UNCHANGED <<mo_priority, req>>

\* raw material of the MO's batches as a share of its reserved + locked
\* allocations: at least 90 percent, and something is allocated
RmBatchedEnough(d, m) ==
    /\ SumQty(ActiveOf(d, m)) > 0
    /\ CumulativeBatchRm(d, m) * 100 >= 90 * SumQty(ActiveOf(d, m))

\* BatchProcessExecutionViewSet.complete_batch_process: batch b completes process i
complete_batch_process(b, i) ==
    /\ b \in DOMAIN batches
    /\ i \in DOMAIN executions[batches[b].mo]
    /\ LET m == batches[b].mo
       IN /\ \/ executions[m][i] = "in_progress"
             \/ mo_status[m] = "stopped" /\ batches[b].status = "in_process"
          /\ LET d1 == [DB EXCEPT !.batches[b].process_status[i] = "completed"]
                 d2 == IF \A j \in DOMAIN executions[m] :
                              d1.batches[b].process_status[j] = "completed"
                       THEN [d1 EXCEPT !.batches[b].status = "completed"]
                       ELSE d1
                 d3 == [d2 EXCEPT !.progress[m][i] = ProgressPercentage(d2, m, i)]
                 d4 == IF CompletedBatches(d3, m, i) = BatchesOf(d3, m) /\ RmBatchedEnough(d3, m)
                       THEN [d3 EXCEPT !.executions[m][i] = "completed",
                                       !.progress[m][i] = 10000]
                       ELSE IF d3.executions[m][i] = "completed"
                            THEN [d3 EXCEPT !.executions[m][i] = "in_progress"]
                            ELSE d3
             IN Commit(d4)
    /\ UNCHANGED <<mo_priority, req>>

(***************************************************************************)
(* Process stop and resume, MO stop                                        *)
(***************************************************************************)
\* batches the stop serializer accepts: not completed (nor cancelled)
ActiveBatches(d, m) == {b \in BatchesOf(d, m) : d.batches[b].status # "completed"}

\* the clients that post stop requests at the same time
StopRequesters == {1, 2}
NoStopRequest == [mo |-> 0, execution |-> 0, batches |-> {}]

\* a stop request without batch_id, and the batch ids a request can name: none,
\* every batch there can be, and one id that no batch has
NoBatch == 0
BatchIds == 0..(MaxBatches + 1)

\* ProcessStopCreateSerializer.validate: the batches the request stops, {} when
\* it raises a ValidationError
ProcessStopCreateSerializer_validate(d, m, batch_id) ==
    LET active_batches == ActiveBatches(d, m)
    IN IF batch_id # NoBatch /\ batch_id \in DOMAIN d.batches
       THEN IF batch_id \in active_batches THEN {batch_id} ELSE {}
       ELSE active_batches

\* unresolved ProcessStop rows of execution i of MO m
UnresolvedStops(d, m, i) == {st \in d.process_stops : st[1] = m /\ st[2] = i}

\* the first refusal left out
AlreadyStopped_never(d, m, i) == FALSE

\* ProcessStopViewSet.create, first refusal: the execution is stopped and has
\* an unresolved stop
AlreadyStopped(d, m, i) ==
    d.executions[m][i] = "stopped" /\ UnresolvedStops(d, m, i) # {}

\* ProcessStopViewSet.create, second refusal: one of the chosen batches has an
\* unresolved stop on this execution
HasActiveStops(d, m, i, bs) == \E st \in UnresolvedStops(d, m, i) : st[3] \in bs

\* ProcessStop row of batch b on execution i of MO m; its fourth field tells
\* apart the rows of one batch and execution, which nothing forbids
ProcessStop_row(d, m, i, b) ==
    <<m, i, b, 1 + Cardinality({st \in UnresolvedStops(d, m, i) : st[3] = b})>>

\* the rows the transaction creates, one per batch, and the status flip
CreateStops(d, m, i, bs) ==
    [d EXCEPT !.process_stops = @ \cup {ProcessStop_row(d, m, i, b) : b \in bs},
              !.executions[m][i] = "stopped"]

\* ProcessStopViewSet.create: a stop request for execution i of MO m naming
\* batch_id (NoBatch: none)
process_stop(m, i, batch_id) ==
    /\ i \in DOMAIN executions[m]
    /\ LET bs == ProcessStopCreateSerializer_validate(DB, m, batch_id)
       IN /\ bs # {}
          /\ ~AlreadyStopped(DB, m, i)
          /\ ~HasActiveStops(DB, m, i, bs)
          /\ Commit(CreateStops(DB, m, i, bs))
    /\ UNCHANGED <<mo_priority, req>>

\* ProcessStop.resume_process: the stop is resumed, so no longer unresolved
ProcessStop_resume_process(d, st) == [d EXCEPT !.process_stops = @ \ {st}]

RECURSIVE ResumeLoop(_, _)
ResumeLoop(d, stops) ==
    IF stops = {} THEN d
    ELSE LET stop == CHOOSE x \in stops : TRUE
         IN ResumeLoop(ProcessStop_resume_process(d, stop), stops \ {stop})

\* the resume leaving the other stops of the execution unresolved
ResumeStops_one(d, st) == ProcessStop_resume_process(d, st)

\* every unresolved stop of the execution of st is resumed
ResumeStops(d, st) == ResumeLoop(d, UnresolvedStops(d, st[1], st[2]))

\* ProcessStopViewSet.resume on one unresolved stop: resumes every unresolved
\* stop of its process execution
process_resume(st) ==
    /\ st \in process_stops
    /\ LET m == st[1]
           i == st[2]
           d1 == ResumeStops(DB, st)
       IN Commit(IF d1.executions[m][i] = "stopped" /\ UnresolvedStops(d1, m, i) = {}
                 THEN [d1 EXCEPT !.executions[m][i] = "in_progress"]
                 ELSE d1)
    /\ UNCHANGED <<mo_priority, req>>

\* ManufacturingOrder.stop_mo: the MO becomes stopped and its allocations that
\* are not locked go back to stock
ManufacturingOrder_stop_mo(d, m) ==
    ReleaseLoop(LogStatus([d EXCEPT !.mo_status[m] = "stopped"],
                          m, d.mo_status[m], "stopped"),
                SortById({a \in d.allocs : a.mo = m /\ a.status = "reserved"}), m)

\* ManufacturingOrderViewSet.stop_mo
stop_mo(m) ==
    /\ mo_status[m] \in {"on_hold", "rm_allocated", "in_progress"}
    /\ Commit(ManufacturingOrder_stop_mo(DB, m))
    /\ UNCHANGED <<mo_priority, req>>

(***************************************************************************)
(* Allocation endpoints                                                    *)
(***************************************************************************)
swap(a, t) ==
    /\ a \in allocs
    /\ LET r == swap_to_mo(DB, a, t, mo_priority)
       IN /\ r.success
          /\ Commit([r.d EXCEPT !.alloc_history = @ \cup
                        {HistoryRow(a.id, "swapped", a.mo, t, a.qty, "manual")}])
    /\ UNCHANGED <<mo_priority, req>>

auto_swap(t) ==
    /\ SwappableSet(DB, t, mo_priority) # {}
    /\ Commit(auto_swap_allocations(DB, t, mo_priority).d)
    /\ UNCHANGED <<mo_priority, req>>

release(a) ==
    /\ a \in allocs
    /\ LET r == release_allocation(DB, a)
       IN /\ r.success
          /\ Commit([r.d EXCEPT !.alloc_history = @ \cup
                        {HistoryRow(a.id, "released", a.mo, NoMO, a.qty, "released")}])
    /\ UNCHANGED <<mo_priority, req>>

\* POST check_availability for an MO: stores nothing in the database
check_availability(m) ==
    /\ availability' = check_rm_availability_for_mo(DB, m, mo_priority)
    /\ UNCHANGED <<progress, process_stops, bom, sequence_order, scrap_rm_weight, assigned_supervisor, change_log, daily_status, login_sessions, logout_response, first_login, rework_batches, stop_requests, mo_status, mo_priority, allocs, alloc_history,
                   next_alloc_id, heat_available, legacy_available, batches,
                   req, mo_history, executions, audited>>

(***************************************************************************)
(* Specifications                                                          *)
(***************************************************************************)
InitCommon ==
    /\ mo_status = [m \in MOs |-> "on_hold"]
    /\ allocs = {}
    /\ alloc_history = {}
    /\ next_alloc_id = 1
    /\ heat_available \in InitialStock
    /\ legacy_available = heat_available
    /\ batches = <<>>
    /\ req = NoReq
    /\ mo_history = [m \in MOs |-> NoHistory]
    /\ executions = [m \in MOs |-> <<>>]
    /\ audited = FALSE
    /\ availability = NoAvailability
    /\ stop_requests = [r \in StopRequesters |-> NoStopRequest]
    /\ rework_batches = {}
    /\ first_login = [u \in Supervisors |-> NoTime]
    /\ logout_response = NoLogout
    /\ login_sessions = [u \in Supervisors |-> "none"]
    /\ daily_status = [p \in 1..MaxProcesses |-> NoDailyStatus]
    /\ change_log = <<>>
    /\ assigned_supervisor = [m \in DOMAIN mo_status |-> <<>>]
    /\ scrap_rm_weight = [m \in DOMAIN mo_status |-> 0]
    /\ sequence_order = [m \in DOMAIN mo_status |-> <<>>]
    /\ bom = [m \in DOMAIN mo_status |-> IF m \in DOMAIN bom_processes THEN bom_processes[m] ELSE 0]
    /\ process_stops = {}
    /\ progress = [m \in DOMAIN mo_status |-> <<>>]

\* Reservation at production start, batch locking and overlapping start
\* requests, on the MOs of ProductionMOs.
Init ==
    /\ InitCommon
    /\ mo_priority = <<"low", "medium", "high">>

Next ==
    \/ \E m \in ProductionMOs : _handle_approve_mo(m)
    \/ \E m \in ProductionMOs : _handle_start_production(m)
    \/ \E m \in ProductionMOs : start_mo(m)
    \/ \E m \in ProductionMOs, ns \in StatusChoices : change_status(m, ns)
    \/ \E m \in ProductionMOs : StartBegin("start_production", m, "in_progress")
    \/ \E m \in ProductionMOs : StartBegin("start_mo", m, "in_progress")
    \/ \E m \in ProductionMOs : StartBegin("change_status", m, "in_progress")
    \/ StartFinish
    \/ \E m \in ProductionMOs : _handle_reject_mo(m)
    \/ \E m \in ProductionMOs, planned \in PlannedQuantities : create_batch(m, planned)
    \/ \E b \in 1..MaxBatches : verify_batch(b)
    \/ \E b \in 1..MaxBatches : start_batch(b)
    \/ \E a \in allocs : release(a)

Spec == Init /\ [][Next]_vars

\* Priority swaps between all MOs.
InitSwap ==
    /\ InitCommon
    /\ mo_priority \in PriorityAssignments

NextSwap ==
    \/ \E m \in MOs : _handle_approve_mo(m)
    \/ \E m \in MOs : _handle_start_production(m)
    \/ \E m \in MOs : start_mo(m)
    \/ \E m \in MOs, ns \in StatusChoices : change_status(m, ns)
    \/ \E m \in MOs : _handle_reject_mo(m)
    \/ \E a \in allocs, t \in MOs : swap(a, t)
    \/ \E t \in MOs : auto_swap(t)

SpecSwap == InitSwap /\ [][NextSwap]_vars

\* The availability check is a read of the database: its inputs are drawn here.
AvailStock == {0, 15000, 30000}
AvailSourceAllocs ==
    {{}} \cup {{NewAlloc(1, 4, q, st, TRUE, 0)} :
                 q \in {15000, 30000}, st \in {"reserved", "locked"}}

InitAvail ==
    /\ mo_status \in [ScenarioMOs -> {"on_hold", "in_progress"}]
    /\ mo_priority \in [ScenarioMOs -> Priorities]
    /\ allocs \in AvailSourceAllocs
    /\ alloc_history = {}
    /\ next_alloc_id = 2
    /\ heat_available \in AvailStock
    /\ legacy_available = heat_available
    /\ batches = <<>>
    /\ req = NoReq
    /\ mo_history = [m \in ScenarioMOs |-> NoHistory]
    /\ executions = [m \in ScenarioMOs |-> <<>>]
    /\ audited = FALSE
    /\ availability = NoAvailability
    /\ stop_requests = [r \in StopRequesters |-> NoStopRequest]
    /\ rework_batches = {}
    /\ first_login = [u \in Supervisors |-> NoTime]
    /\ logout_response = NoLogout
    /\ login_sessions = [u \in Supervisors |-> "none"]
    /\ daily_status = [p \in 1..MaxProcesses |-> NoDailyStatus]
    /\ change_log = <<>>
    /\ assigned_supervisor = [m \in DOMAIN mo_status |-> <<>>]
    /\ scrap_rm_weight = [m \in DOMAIN mo_status |-> 0]
    /\ sequence_order = [m \in DOMAIN mo_status |-> <<>>]
    /\ bom = [m \in DOMAIN mo_status |-> IF m \in DOMAIN bom_processes THEN bom_processes[m] ELSE 0]
    /\ process_stops = {}
    /\ progress = [m \in DOMAIN mo_status |-> <<>>]

NextAvail ==
    \/ \E m \in ScenarioMOs : check_availability(m)
    \/ \E t \in ScenarioMOs : auto_swap(t)

SpecAvail == InitAvail /\ [][NextAvail]_vars

\* MO life cycle with status history and process executions; the lower stock
\* value does not cover the MO's requirement
StatusStock == {2040, 4080}

InitStatus ==
    /\ mo_status = [m \in MOs |-> "on_hold"]
    /\ mo_priority = <<"low", "medium", "high">>
    /\ allocs = {}
    /\ alloc_history = {}
    /\ next_alloc_id = 1
    /\ heat_available \in StatusStock
    /\ legacy_available = heat_available
    /\ batches = <<>>
    /\ req = NoReq
    /\ mo_history = [m \in MOs |-> NoHistory]
    /\ executions = [m \in MOs |-> <<>>]
    /\ audited = TRUE
    /\ availability = NoAvailability
    /\ stop_requests = [r \in StopRequesters |-> NoStopRequest]
    /\ rework_batches = {}
    /\ first_login = [u \in Supervisors |-> NoTime]
    /\ logout_response = NoLogout
    /\ login_sessions = [u \in Supervisors |-> "none"]
    /\ daily_status = [p \in 1..MaxProcesses |-> NoDailyStatus]
    /\ change_log = <<>>
    /\ assigned_supervisor = [m \in DOMAIN mo_status |-> <<>>]
    /\ scrap_rm_weight = [m \in DOMAIN mo_status |-> 0]
    /\ sequence_order = [m \in DOMAIN mo_status |-> <<>>]
    /\ bom = [m \in DOMAIN mo_status |-> IF m \in DOMAIN bom_processes THEN bom_processes[m] ELSE 0]
    /\ process_stops = {}
    /\ progress = [m \in DOMAIN mo_status |-> <<>>]

NextStatus ==
    \/ \E m \in ProductionMOs : _handle_approve_mo(m)
    \/ \E m \in ProductionMOs : _handle_start_production(m)
    \/ \E m \in ProductionMOs : start_mo(m)
    \/ \E m \in ProductionMOs, ns \in MOStatusChoices : change_status(m, ns)
    \/ \E m \in ProductionMOs : _handle_reject_mo(m)
    \/ \E m \in ProductionMOs : initialize_processes(m)
    \/ \E m \in ProductionMOs : \E i \in 1..bom_processes[m] : start_process(m, i)
    \/ \E m \in ProductionMOs : \E i \in 1..bom_processes[m] : complete_process(m, i)

SpecStatus == InitStatus /\ [][NextStatus]_vars

\* Batches and process executions of one MO, from creation to completion
BatchQuantities == {1000, 3000}

NextBatch ==
    \/ \E m \in ProductionMOs : _handle_approve_mo(m)
    \/ \E m \in ProductionMOs : _handle_start_production(m)
    \/ \E m \in ProductionMOs : initialize_processes(m)
    \/ \E m \in ProductionMOs : \E i \in 1..bom_processes[m] : start_process(m, i)
    \/ \E m \in ProductionMOs : \E i \in 1..bom_processes[m] : complete_process(m, i)
    \/ \E m \in ProductionMOs, planned \in BatchQuantities : create_batch(m, planned)
    \/ \E b \in 1..MaxBatches : verify_batch(b)
    \/ \E b \in 1..MaxBatches : start_batch(b)
    \/ \E b \in 1..MaxBatches, m \in ProductionMOs :
          \E i \in 1..bom_processes[m] : start_batch_process(b, i)
    \/ \E b \in 1..MaxBatches, actual \in BatchQuantities : complete_batch(b, actual)

SpecBatch == InitStatus /\ [][NextBatch]_vars

\* Process coordination of one MO: batches through processes, progress,
\* process stop and resume, MO stop
InitProcess ==
    /\ InitStatus
    /\ \A m \in ProductionMOs : heat_available >= rm_required_kg[m]

NextProcess ==
    \/ \E m \in ProductionMOs : start_mo(m)
    \/ \E m \in ProductionMOs : initialize_processes(m)
    \/ \E m \in ProductionMOs : stop_mo(m)
    \/ \E m \in ProductionMOs : \E i \in 1..bom_processes[m] : start_process(m, i)
    \/ \E m \in ProductionMOs : \E i \in 1..bom_processes[m] : complete_process(m, i)
    \/ \E m \in ProductionMOs, planned \in BatchQuantities : create_batch(m, planned)
    \/ \E b \in 1..MaxBatches : verify_batch(b)
    \/ \E b \in 1..MaxBatches : start_batch(b)
    \/ \E b \in 1..MaxBatches, m \in ProductionMOs :
          \E i \in 1..bom_processes[m] : start_batch_process(b, i)
    \/ \E b \in 1..MaxBatches, m \in ProductionMOs :
          \E i \in 1..bom_processes[m] : complete_batch_process(b, i)

SpecProcess == InitProcess /\ [][NextProcess]_vars

\* Process stop and resume next to the batch flow
NextStop ==
    \/ \E m \in ProductionMOs : start_mo(m)
    \/ \E m \in ProductionMOs, planned \in PlannedQuantities : create_batch(m, planned)
    \/ \E b \in 1..MaxBatches, m \in ProductionMOs :
          \E i \in 1..bom_processes[m] : start_batch_process(b, i)
    \/ \E b \in 1..MaxBatches, m \in ProductionMOs :
          \E i \in 1..bom_processes[m] : complete_batch_process(b, i)
    \/ \E m \in ProductionMOs, batch_id \in BatchIds :
          \E i \in 1..bom_processes[m] : process_stop(m, i, batch_id)
    \/ \E st \in process_stops : process_resume(st)

SpecStop == InitProcess /\ [][NextStop]_vars

\* Progress of the process executions: batch completions and posted values
ProgressInputs == {0, 2500, 10000}

NextProgress ==
    \/ \E m \in ProductionMOs : start_mo(m)
    \/ \E m \in ProductionMOs, planned \in PlannedQuantities : create_batch(m, planned)
    \/ \E b \in 1..MaxBatches, m \in ProductionMOs :
          \E i \in 1..bom_processes[m] : start_batch_process(b, i)
    \/ \E b \in 1..MaxBatches, m \in ProductionMOs :
          \E i \in 1..bom_processes[m] : complete_batch_process(b, i)
    \/ \E m \in ProductionMOs : \E i \in 1..bom_processes[m] : complete_process(m, i)
    \/ \E m \in ProductionMOs, p \in ProgressInputs :
          \E i \in 1..bom_processes[m] : update_progress(m, i, p)

SpecProgress == InitProcess /\ [][NextProgress]_vars

(***************************************************************************)
(* Properties                                                              *)
(***************************************************************************)
\* rows inserted by the current step
NewRows == {a \in allocs' : \A b \in allocs : b.id # a.id}

\* quantity of the rows the current step moves from reserved/locked to released
ReleasedQty ==
    SumQty({a \in allocs : /\ a.status \in {"reserved", "locked"}
                           /\ \E b \in allocs' : b.id = a.id /\ b.status = "released"})

RECURSIVE SumQuantityKg(_)
SumQuantityKg(H) ==
    IF H = {} THEN 0
    ELSE LET h == CHOOSE x \in H : TRUE IN h.quantity_kg + SumQuantityKg(H \ {h})

\* history rows the current step writes for automatic swaps
NewAutoSwaps ==
    {h \in alloc_history' \ alloc_history : h.action = "swapped" /\ h.reason = "auto"}

Covered(m) == SumQty(ActiveOf(DB, m)) >= rm_required_kg[m]

\* C1: in every committed state the available stock of the material, in
\* either stock balance, is greater than or equal to zero.
C1_StockNonNegative == heat_available >= 0 /\ legacy_available >= 0

\* C2: available stock goes down only by exactly the quantity reserved in
\* the same step, and goes up only by exactly the quantity released in it.
C2_StockMovesOnlyWithReserveAndRelease ==
    [][ /\ heat_available' < heat_available =>
             heat_available - heat_available'
                = SumQty({a \in NewRows : a.status = "reserved"})
        /\ legacy_available' < legacy_available =>
             legacy_available - legacy_available'
                = SumQty({a \in NewRows : a.status = "reserved"})
        /\ heat_available' > heat_available =>
             heat_available' - heat_available = ReleasedQty
        /\ legacy_available' > legacy_available =>
             legacy_available' - legacy_available = ReleasedQty ]_vars

\* C3: a production-start call takes from stock only the reservations it
\* created itself, so no reserved quantity is taken from stock twice, also
\* when two start calls on the same MO overlap.
C3_StartDecrementsOnlyNewReservations ==
    [][ legacy_available' < legacy_available =>
            legacy_available - legacy_available' = SumQty(NewRows) ]_vars

\* C4: in every state where the MO's reserved and locked allocations already
\* cover its requirement, a reserve call succeeds by returning an existing
\* allocation and creates no allocation row, no history row and no stock change.
C4_ReserveIdempotentWhenCovered ==
    \A m \in MOs :
        Covered(m) =>
            LET r == allocate_rm_for_mo(DB, m)
            IN /\ ~r.raised
               /\ r.result \subseteq ActiveOf(DB, m)
               /\ r.d = DB

\* C5: a reserve call, whether it creates a reservation, returns an
\* existing one or fails, leaves both stock balances as they were.
C5_ReserveLeavesStock ==
    \A m \in MOs :
        LET r == allocate_rm_for_mo(DB, m)
        IN r.d.heat = heat_available /\ r.d.legacy = legacy_available

\* a reservation has been made, and a further reserve call for MO 3 would
\* now fail for lack of stock
C5_Witness ==
    /\ \E h \in alloc_history : h.action = "reserved"
    /\ heat_available < rm_required_kg[3]

\* C6: a step that starts a batch, and so locks allocations for it, leaves
\* the available stock unchanged.
C6_BatchLockLeavesStock ==
    [][ (\E b \in DOMAIN batches :
            batches[b].status = "created" /\ batches'[b].status = "in_process")
        => (heat_available' = heat_available /\ legacy_available' = legacy_available) ]_vars

\* C7: whenever a step shrinks or removes an allocation row, the row was
\* reserved, a new locked child split from it holds exactly the missing
\* quantity, and the parent, if it remains, is still reserved with a
\* positive quantity; every locked row inserted is such a child.
C7_SplitConservesQuantity ==
    [][ /\ \A a \in allocs :
             LET after == {b \in allocs' : b.id = a.id}
                 left  == SumQty(after)
             IN (after = {} \/ left # a.qty) =>
                  /\ a.status = "reserved"
                  /\ \A b \in after : b.status = "reserved" /\ b.qty > 0
                  /\ \E c \in NewRows :
                        /\ c.status = "locked"
                        /\ c.split_from = a.id
                        /\ c.mo = a.mo
                        /\ c.qty + left = a.qty
        /\ \A c \in NewRows :
             c.status = "locked" =>
                \E a \in allocs :
                    /\ a.id = c.split_from
                    /\ a.status = "reserved"
                    /\ c.qty + SumQty({b \in allocs' : b.id = a.id}) = a.qty ]_vars

\* a batch lock has split an allocation and the reduced parent is still there
C7_Witness ==
    \E c \in allocs :
        /\ c.status = "locked"
        /\ c.split_from # 0
        /\ \E a \in allocs : a.id = c.split_from /\ a.status = "reserved"

\* C8: an automatic swap leaves swap history rows behind only if the
\* quantity it swapped reaches the target MO's requirement.
C8_AutoSwapAllOrNothing ==
    [][ \A h \in NewAutoSwaps :
            SumQuantityKg(NewAutoSwaps) >= rm_required_kg[h.to_mo] ]_vars

C10_AutoSwapLowestPriorityFirst ==
    [][ \A h \in NewAutoSwaps :
            \A x \in allocs : \A y \in SwappableSet(DB, h.to_mo, mo_priority) :
                (x.id = h.allocation /\ y.id \notin {g.allocation : g \in NewAutoSwaps}) =>
                    \/ priority_order[mo_priority[x.mo]] < priority_order[mo_priority[y.mo]]
                    \/ /\ priority_order[mo_priority[x.mo]] = priority_order[mo_priority[y.mo]]
                       /\ x.id < y.id ]_vars

\* the (status, quantity) pairs of an MO's active allocations
ActiveShape(d, m) == {<<a.status, a.qty>> : a \in ActiveOf(d, m)}

\* C11: releasing an MO's active allocations and then reserving again for
\* the same MO succeeds and gives back the same available stock and the same
\* active allocations (status and quantity) as before the release.
C11_ReleaseThenReserveRoundTrip ==
    \A m \in MOs :
        ActiveOf(DB, m) # {} =>
            LET released == release_allocations_for_mo(DB, m)
                r == allocate_rm_for_mo(released, m)
            IN /\ ~r.raised
               /\ r.d.heat = heat_available
               /\ r.d.legacy = legacy_available
               /\ ActiveShape(r.d, m) = ActiveShape(DB, m)
               /\ Cardinality(ActiveOf(r.d, m)) = Cardinality(ActiveOf(DB, m))

\* the 30 kg scenario: m has no allocation of its own, no stock is available,
\* and a lower-priority on_hold MO holds one reservation of m's requirement
ShortageScenario(m) ==
    /\ ActiveOf(DB, m) = {}
    /\ heat_available = 0
    /\ \E a \in allocs :
          /\ SwappableSet(DB, m, mo_priority) = {a}
          /\ a.qty = rm_required_kg[m]

\* C12: for a target MO requiring 30 kg with no allocation of its own, 0 kg
\* in stock and 30 kg reserved by a lower-priority on_hold MO, the availability
\* check reports shortage 30 and swappable 30.
C12_AvailabilityReportsShortageAndSwappable ==
    [][\A m \in ScenarioMOs :
          (ShortageScenario(m) /\ availability' # availability /\ availability'.mo = m)
              => /\ availability'.shortage_kg = rm_required_kg[m]
                 /\ availability'.swappable_kg = rm_required_kg[m]]_vars

\* C13: an attempt to start production on an MO whose status is not
\* mo_approved (for instance on_hold) is refused, so it writes nothing: no
\* status, allocation, stock or status-history change.
C13_StartProductionRequiresApproved ==
    \A m \in ProductionMOs :
        mo_status[m] # "mo_approved" => ~ENABLED _handle_start_production(m)

\* an MO put back on hold after production had started, where the start is refused
C13_Witness ==
    \E m \in ProductionMOs :
        /\ mo_status[m] = "on_hold"
        /\ mo_history[m] = [from_status |-> "in_progress", to_status |-> "on_hold"]
        /\ ~ENABLED _handle_start_production(m)

\* C14: whenever start-production succeeds and the MO becomes in_progress, the
\* MO's reserved plus locked allocations cover its required raw material.
C14_StartedProductionIsCovered ==
    [][\A m \in ProductionMOs :
          (_handle_start_production(m) /\ mo_status'[m] = "in_progress")
              => Covered(m)']_vars

\* C15: an MO's status becomes mo_approved only from on_hold; an approval
\* attempted in any other status fails and leaves the MO unchanged.
C15_ApprovedOnlyFromOnHold ==
    [][\A m \in ProductionMOs :
          (mo_status'[m] = "mo_approved" /\ mo_status[m] # "mo_approved")
              => mo_status[m] = "on_hold"]_vars

\* C16: reject succeeds only on an MO in a non-terminal status: an MO that is
\* completed, rejected or stopped never changes to rejected.
C16_RejectOnlyNonTerminal ==
    [][\A m \in ProductionMOs :
          _handle_reject_mo(m) => mo_status[m] \notin {"completed", "rejected", "stopped"}]_vars

\* C18: every change of an MO's status, by whichever operation, is recorded by
\* a status-history row whose from-status is the status before the change and
\* whose to-status is the status after it.
C18_StatusChangeHasHistoryRow ==
    [][\A m \in ProductionMOs :
          mo_status'[m] # mo_status[m]
              => mo_history'[m] = [from_status |-> mo_status[m],
                                   to_status |-> mo_status'[m]]]_vars

\* C17: an MO's status becomes completed only if the MO is in_progress, every
\* one of its process executions is completed, and the completed quantity
\* summed over its completed batches reaches the MO's target quantity.
C17_CompletedOnlyWhenAllDone ==
    [][\A m \in ProductionMOs :
          (mo_status'[m] = "completed" /\ mo_status[m] # "completed")
              => /\ mo_status[m] = "in_progress"
                 /\ \A i \in DOMAIN executions'[m] : executions'[m][i] = "completed"
                 /\ CompletedQuantity(DB, m)' >= quantity[m]]_vars

\* C19: a batch is created only if the MO's remaining raw material is strictly
\* above the threshold (0.05 kg for coil); at exactly the threshold, or below
\* it, the creation is refused.
C19_BatchCreatedOnlyAboveThreshold ==
    [][Len(batches') > Len(batches)
          => get_can_create_batch(DB, batches'[Len(batches')].mo)]_vars

\* C20: a batch enters in_process only if its status is created and it has
\* been verified, whichever start endpoint is used.
C20_BatchStartsOnlyVerified ==
    [][\A b \in DOMAIN batches :
          (batches'[b].status = "in_process" /\ batches[b].status # "in_process")
              => batches[b].status = "created" /\ batches[b].verified]_vars

\* C21: while an MO is stopped, new starts are blocked: no batch of the MO
\* moves from created to in_process, and no (batch, process) pair and no
\* pending process execution of the MO is set to in_progress.
C21_StoppedBlocksNewStarts ==
    [][\A m \in ProductionMOs :
          (mo_status[m] = "stopped" /\ mo_status'[m] = "stopped")
              => /\ \A b \in BatchesOf(DB, m) :
                       ~(batches[b].status = "created" /\ batches'[b].status = "in_process")
                 /\ \A b \in BatchesOf(DB, m) : \A i \in DOMAIN batches[b].process_status :
                       batches'[b].process_status[i] = "in_progress"
                           => batches[b].process_status[i] = "in_progress"
                 /\ \A i \in DOMAIN executions[m] :
                       ~(executions[m][i] = "pending" /\ executions'[m][i] = "in_progress")]_vars

\* C22: within an MO, process N+1 (by sequence_order) is not started until
\* process N has at least one batch that completed it.
C22_NextProcessWaitsForPrevious ==
    [][\A m \in ProductionMOs : \A i \in DOMAIN executions[m] :
          (i > 1 /\ executions[m][i] = "pending" /\ executions'[m][i] = "in_progress")
              => CompletedBatches(DB, m, i - 1) # {}]_vars

\* C23: for every process execution, in every state, progress_percentage lies
\* between 0 and 100 and equals 100 * completed / total over the MO's current
\* batches.
C23_ProgressMatchesBatches ==
    \A m \in ProductionMOs : \A i \in DOMAIN executions[m] :
        /\ 0 <= progress[m][i] /\ progress[m][i] <= 10000
        /\ BatchesOf(DB, m) # {} => progress[m][i] = ProgressPercentage(DB, m, i)

\* C24: a process execution becomes completed only when every non-cancelled
\* batch of the MO has completed that process and the raw material of the
\* non-cancelled batches is at least 90 % of the MO's reserved-plus-locked
\* raw material.
C24_CompletedNeedsBatchesAndRm ==
    [][\A m \in ProductionMOs : \A i \in DOMAIN executions[m] :
          (/\ i \in DOMAIN executions'[m]
           /\ executions[m][i] # "completed"
           /\ executions'[m][i] = "completed")
          => /\ CompletedBatches(DB, m, i)' = BatchesOf(DB, m)'
             /\ RmBatchedEnough(DB, m)']_vars

(***************************************************************************)
(* Batch creation after a process execution was completed                  *)
(***************************************************************************)
NextRegress ==
    \/ \E m \in ProductionMOs : start_mo(m)
    \/ \E m \in ProductionMOs : \E q \in BatchQuantities : create_batch(m, q)
    \/ \E b \in 1..MaxBatches : \E i \in 1..2 : start_batch_process(b, i)
    \/ \E b \in 1..MaxBatches : \E i \in 1..2 : complete_batch_process(b, i)
    \/ \E m \in ProductionMOs : \E i \in 1..bom_processes[m] : complete_process(m, i)

SpecRegress == InitProcess /\ [][NextRegress]_vars

\* C25: when a batch is created for an MO, every process execution of the MO
\* that was completed and now has fewer completed batches than batches is
\* in_progress after the creation.
C25_NewBatchRevertsCompleted ==
    [][\A m \in ProductionMOs :
          Cardinality(BatchesOf(DB, m))' > Cardinality(BatchesOf(DB, m))
          => \A i \in DOMAIN executions[m] :
                 (/\ executions[m][i] = "completed"
                  /\ CompletedBatches(DB, m, i)' # BatchesOf(DB, m)')
                 => executions'[m][i] = "in_progress"]_vars

\* a first batch carrying the whole reserved material completed process 1,
\* which completed the execution; a second batch was then created and the
\* execution is in_progress again
C25_Witness ==
    \E m \in ProductionMOs :
        /\ Len(batches) >= 2
        /\ batches[1].mo = m /\ batches[1].planned_quantity = 3000
        /\ batches[1].process_status[1] = "completed"
        /\ batches[2].mo = m /\ batches[2].status = "created"
        /\ batches[2].process_status[1] = "none"
        /\ executions[m][1] = "in_progress"
        /\ progress[m][1] = 5000

\* C26: a process execution leaves status completed only on a step that
\* creates a batch for its MO; stop, resume, progress update and hand-off of
\* a batch leave a completed execution completed.
C26_CompletedLeftOnlyByNewBatch ==
    [][\A m \in ProductionMOs : \A i \in DOMAIN executions[m] :
          (/\ executions[m][i] = "completed"
           /\ executions'[m][i] # "completed")
          => Cardinality(BatchesOf(DB, m))' > Cardinality(BatchesOf(DB, m))]_vars

(***************************************************************************)
(* Process initialisation against a BOM that gains processes               *)
(***************************************************************************)
\* a BOM row for a process step of a further process is added for the product
BOM_create(m) ==
    /\ audited
    /\ bom[m] < MaxProcesses
    /\ Commit([DB EXCEPT !.bom[m] = @ + 1])
    /\ UNCHANGED <<mo_priority, req>>

NextSequence ==
    \/ \E m \in ProductionMOs : _handle_approve_mo(m)
    \/ \E m \in ProductionMOs : start_mo(m)
    \/ \E m \in ProductionMOs, ns \in MOStatusChoices : change_status(m, ns)
    \/ \E m \in ProductionMOs : initialize_processes(m)
    \/ \E m \in ProductionMOs : BOM_create(m)
    \/ \E m \in ProductionMOs : \E i \in 1..MaxProcesses : start_process(m, i)

SpecSequence == InitProcess /\ [][NextSequence]_vars

\* C27: the sequence_order values of an MO's process executions are exactly
\* 1..N, each once, in every state.
C27_SequenceOrderContiguous ==
    \A m \in ProductionMOs :
        LET n == Len(sequence_order[m])
        IN /\ {sequence_order[m][k] : k \in 1..n} = 1..n
           /\ \A j, k \in 1..n : j # k => sequence_order[m][j] # sequence_order[m][k]

(***************************************************************************)
(* Remaining raw material sent to scrap                                    *)
(***************************************************************************)
\* request payloads: scrap_rm_kg in grams, or 0 for send_all_remaining
ScrapInputs == {0, 1020, 2040}
MaxScrap == 6120

\* remaining_rm_kg = total_rm_required - cumulative_rm_released
send_remaining_to_scrap(m, scrap_rm_kg) ==
    LET remaining_rm_kg == rm_required_kg[m] - CumulativeBatchRm(DB, m)
        scrap_kg == IF scrap_rm_kg = 0 THEN remaining_rm_kg ELSE scrap_rm_kg
    IN /\ remaining_rm_kg > 0
       /\ scrap_kg <= remaining_rm_kg
       /\ scrap_rm_weight[m] + scrap_kg <= MaxScrap
       /\ Commit([DB EXCEPT !.scrap_rm_weight[m] = @ + scrap_kg])
       /\ UNCHANGED <<mo_priority, req>>

NextScrap ==
    \/ \E m \in ProductionMOs : start_mo(m)
    \/ \E m \in ProductionMOs : \E q \in PlannedQuantities : create_batch(m, q)
    \/ \E b \in 1..MaxBatches : \E i \in 1..2 : start_batch_process(b, i)
    \/ \E m \in ProductionMOs : \E s \in ScrapInputs : send_remaining_to_scrap(m, s)

SpecScrap == InitProcess /\ [][NextScrap]_vars

\* C28: after every step that sends raw material to scrap, the MO's
\* cumulative scrap plus the raw material released to its non-cancelled
\* batches does not exceed the MO's total raw material.
C28_ScrapWithinRemaining ==
    [][\A m \in ProductionMOs :
          scrap_rm_weight'[m] > scrap_rm_weight[m]
          => scrap_rm_weight'[m] + CumulativeBatchRm(DB, m)' <= rm_required_kg[m]]_vars

(***************************************************************************)
(* Supervisor resolution: manual assignment, attendance, logout cascade    *)
(***************************************************************************)
\* CustomTokenObtainPairView.post: LoginSession.objects.create(user) at time
\* of day t; the date's earliest session stays the first one
login(u, t) ==
    /\ audited
    /\ login_sessions[u] # "active"
    /\ first_login[u] = NoTime \/ first_login[u] <= t
    /\ Commit([DB EXCEPT !.login_sessions[u] = "active",
                         !.first_login[u] = IF @ = NoTime THEN t ELSE @])
    /\ UNCHANGED <<mo_priority, req>>

\* _get_supervisor_login_time: the first login of the date, or None
_get_supervisor_login_time(d, supervisor) == d.first_login[supervisor]

\* a comparison that turns away a login at the deadline itself
LoggedInOnTime_strict(login_time, check_in_deadline) ==
    login_time < check_in_deadline

\* login_dt <= deadline_dt
LoggedInOnTime(login_time, check_in_deadline) ==
    login_time <= check_in_deadline

\* the attendance job, for every active shift configuration: a primary
\* whose first login of the date is on time is present, otherwise the
\* backup becomes the active supervisor
check_supervisor_attendance ==
    /\ audited
    /\ Commit([DB EXCEPT !.daily_status =
           [p \in DOMAIN @ |->
               LET shift_config == WorkCenterSupervisorShift[p]
                   primary == shift_config.primary_supervisor
                   login_time == _get_supervisor_login_time(DB, primary)
               IN IF shift_config = NoShiftConfig THEN @[p]
                  ELSE IF login_time # NoTime
                          /\ LoggedInOnTime(login_time, CheckInDeadline)
                  THEN [active_supervisor |-> primary, is_present |-> TRUE]
                  ELSE [active_supervisor |-> shift_config.backup_supervisor,
                        is_present |-> FALSE]]])
    /\ UNCHANGED <<mo_priority, req>>

\* MOProcessExecutionViewSet.assign_supervisor
assign_supervisor(m, k, supervisor) ==
    /\ audited
    /\ k \in DOMAIN executions[m]
    /\ Commit([DB EXCEPT !.assigned_supervisor[m][k] = supervisor])
    /\ UNCHANGED <<mo_priority, req>>

_find_backup_supervisor(work_center, primary_supervisor) ==
    LET mo_override == MOSupervisorOverride[work_center]
        shift_config == WorkCenterSupervisorShift[work_center]
    IN IF mo_override # NoShiftConfig /\ mo_override.backup_supervisor # NoUser
       THEN mo_override.backup_supervisor
       ELSE IF shift_config # NoShiftConfig
               /\ shift_config.primary_supervisor = primary_supervisor
       THEN shift_config.backup_supervisor
       ELSE NoUser

\* executions assigned to the supervisor that are pending, in_progress or
\* on_hold, as <<MO, execution>>
AssignedExecutions(d, u) ==
    {e \in UNION {{<<m, k>> : k \in DOMAIN d.executions[m]} : m \in DOMAIN d.executions} :
        /\ d.assigned_supervisor[e[1]][e[2]] = u
        /\ d.executions[e[1]][e[2]] \in {"pending", "in_progress", "on_hold"}}

SummaryRow(e, st) == [mo |-> e[1], execution |-> e[2], status |-> st]

\* the body of the loop's try block for one execution
ReassignExecution(acc, e, u) ==
    LET m == e[1]
        k == e[2]
        backup_supervisor == _find_backup_supervisor(k, u)
    IN IF backup_supervisor # NoUser
       THEN IF acc.d.login_sessions[backup_supervisor] = "active"
            THEN [acc EXCEPT
                    !.d.assigned_supervisor[m][k] = backup_supervisor,
                    !.d.change_log = Append(@,
                        ChangeLogRow(m, k, u, backup_supervisor, "attendance_absence")),
                    !.summary = Append(@, SummaryRow(e, "reassigned_to_backup"))]
            ELSE [acc EXCEPT
                    !.d.assigned_supervisor[m][k] = NoUser,
                    !.summary = Append(@, SummaryRow(e, "unassigned_backup_unavailable"))]
       ELSE [acc EXCEPT
               !.d.assigned_supervisor[m][k] = NoUser,
               !.summary = Append(@, SummaryRow(e, "unassigned_no_backup"))]

\* a loop without the try block: the failure leaves the function
except_reraise(acc, e) == [acc EXCEPT !.raised = TRUE]

\* except Exception as e: reassignment_summary.append({..., 'status': 'error'})
except_Exception(acc, e) ==
    [acc EXCEPT !.summary = Append(@, SummaryRow(e, "error"))]

\* for execution in assigned_executions, ordered by MO and execution; the
\* executions in fails raise at the first statement of the try block
RECURSIVE ReassignLoop(_, _, _, _)
ReassignLoop(acc, S, u, fails) ==
    IF S = {} \/ acc.raised THEN acc
    ELSE LET e == CHOOSE x \in S : \A y \in S :
                      x[1] < y[1] \/ (x[1] = y[1] /\ x[2] <= y[2])
             acc1 == IF e \in fails THEN except_Exception(acc, e)
                     ELSE ReassignExecution(acc, e, u)
         IN ReassignLoop(acc1, S \ {e}, u, fails)

_reassign_supervisor_work(d, supervisor_user, fails) ==
    ReassignLoop([d |-> d, summary |-> <<>>, raised |-> FALSE],
                 AssignedExecutions(d, supervisor_user), supervisor_user, fails)

\* logout of a supervisor: cascade, then the active login sessions are
\* closed.  The request is authenticated by its access token, which a login
\* issued; the session's state is not read
logout_user(u, fails) ==
    /\ audited
    /\ login_sessions[u] # "none"
    /\ fails \subseteq AssignedExecutions(DB, u)
    /\ LET r == _reassign_supervisor_work(DB, u, fails)
           d1 == [r.d EXCEPT !.login_sessions[u] = "closed",
                             !.logout_response =
                                 [user |-> u,
                                  reassignment_summary |->
                                      IF r.raised THEN <<>> ELSE r.summary,
                                  raised |-> r.raised]]
       IN Len(d1.change_log) <= MaxLog /\ Commit(d1)
    /\ UNCHANGED <<mo_priority, req>>

NextSupervisor ==
    \/ \E m \in ProductionMOs : _handle_approve_mo(m)
    \/ \E m \in ProductionMOs : start_mo(m)
    \/ \E m \in ProductionMOs : initialize_processes(m)
    \/ \E u \in Supervisors : login(u, CheckInDeadline)
    \/ check_supervisor_attendance
    \/ \E m \in ProductionMOs : \E k \in 1..MaxProcesses : \E u \in Supervisors :
          assign_supervisor(m, k, u)
    \/ \E u \in Supervisors :
          \E fails \in SUBSET (ProductionMOs \X (1..MaxProcesses)) : logout_user(u, fails)

SpecSupervisor == InitProcess /\ [][NextSupervisor]_vars

\* rows added to the Supervisor Change Log by the step, for execution k of m
NewChangeLogRows(m, k) ==
    {j \in (Len(change_log) + 1)..Len(change_log') :
        change_log'[j].mo = m /\ change_log'[j].execution = k}

\* C29: every supervisor resolution writes a Supervisor Change Log row: a
\* step that changes an execution's supervisor, and the initial resolution
\* for each execution that initialize_processes creates, add a row for that
\* execution.
C29_ResolutionWritesChangeLog ==
    [][\A m \in ProductionMOs :
          /\ \A k \in DOMAIN assigned_supervisor[m] :
                 assigned_supervisor'[m][k] # assigned_supervisor[m][k]
                 => NewChangeLogRows(m, k) # {}
          /\ initialize_processes(m)
             => \A k \in (Len(executions[m]) + 1)..Len(executions'[m]) :
                    NewChangeLogRows(m, k) # {}]_vars

\* C30: a logout cascade in which some executions fail returns without
\* raising; its summary has one row per assigned execution, in order, an
\* error row for each failed one, and every other execution was processed:
\* it is listed with its outcome and no longer assigned as before unless
\* the backup found is the same user.
C30_CascadeSurvivesFailures ==
    [][\A u \in Supervisors :
          \A fails \in SUBSET (ProductionMOs \X (1..MaxProcesses)) :
              logout_user(u, fails)
              => LET S == AssignedExecutions(DB, u)
                     summary == logout_response'.reassignment_summary
                 IN /\ ~logout_response'.raised
                    /\ Len(summary) = Cardinality(S)
                    /\ \A e \in S : \E j \in 1..Len(summary) :
                           /\ summary[j].mo = e[1]
                           /\ summary[j].execution = e[2]
                           /\ (summary[j].status = "error") <=> (e \in fails)
                           /\ e \notin fails =>
                                  assigned_supervisor'[e[1]][e[2]] =
                                      (IF /\ _find_backup_supervisor(e[2], u) # NoUser
                                          /\ login_sessions[_find_backup_supervisor(e[2], u)] = "active"
                                       THEN _find_backup_supervisor(e[2], u)
                                       ELSE NoUser)
                           /\ e \in fails =>
                                  assigned_supervisor'[e[1]][e[2]] = u]_vars

\* a cascade whose first execution failed and whose second was still
\* processed
C30_Witness ==
    /\ logout_response.user # NoUser
    /\ Len(logout_response.reassignment_summary) = 2
    /\ logout_response.reassignment_summary[1].status = "error"
    /\ logout_response.reassignment_summary[2].status # "error"
    /\ \E m \in ProductionMOs :
           /\ assigned_supervisor[m][1] = logout_response.user
           /\ assigned_supervisor[m][2] # logout_response.user

\* C31: a logout of a user whose login session is already closed changes no
\* execution's assigned supervisor and writes no change-log row.
C31_SecondLogoutIsNoOp ==
    [][\A u \in Supervisors :
          \A fails \in SUBSET (ProductionMOs \X (1..MaxProcesses)) :
              (login_sessions[u] = "closed" /\ logout_user(u, fails))
              => /\ assigned_supervisor' = assigned_supervisor
                 /\ change_log' = change_log]_vars

(***************************************************************************)
(* Attendance: logins around the check-in deadline                         *)
(***************************************************************************)
NextAttendance ==
    \/ \E m \in ProductionMOs : _handle_approve_mo(m)
    \/ \E m \in ProductionMOs : initialize_processes(m)
    \/ \E u \in Supervisors : \E t \in LoginTimes : login(u, t)
    \/ \E u \in Supervisors : logout_user(u, {})
    \/ check_supervisor_attendance

SpecAttendance == InitProcess /\ [][NextAttendance]_vars

\* C32: after the attendance job, the daily status of every process with an
\* active shift configuration has is_present = FALSE and the backup as
\* active supervisor if the primary has no login or a first login strictly
\* after the deadline, and is_present = TRUE and the primary otherwise.
C32_AttendanceFollowsFirstLogin ==
    [][check_supervisor_attendance
       => \A p \in 1..MaxProcesses :
              LET shift_config == WorkCenterSupervisorShift[p]
                  first == first_login[shift_config.primary_supervisor]
              IN shift_config # NoShiftConfig
                 => IF first = NoTime \/ first > CheckInDeadline
                    THEN /\ ~daily_status'[p].is_present
                         /\ daily_status'[p].active_supervisor =
                                shift_config.backup_supervisor
                    ELSE /\ daily_status'[p].is_present
                         /\ daily_status'[p].active_supervisor =
                                shift_config.primary_supervisor]_vars

\* the primary of process 1 logged in exactly at the deadline and the job
\* recorded them present
C32_Witness ==
    /\ first_login[WorkCenterSupervisorShift[1].primary_supervisor] = CheckInDeadline
    /\ daily_status[1].is_present
    /\ daily_status[1].active_supervisor = WorkCenterSupervisorShift[1].primary_supervisor

(***************************************************************************)
(* Process stop requests                                                   *)
(***************************************************************************)
\* C33: while a process execution is stopped and has an unresolved stop, no
\* step creates a ProcessStop row for it: a stop request on it is refused
C33_StoppedExecutionRefusesStop ==
    [][\A m \in ProductionMOs : \A i \in DOMAIN executions[m] :
          (executions[m][i] = "stopped" /\
           \E st \in process_stops : st[1] = m /\ st[2] = i)
          => {st \in process_stops' : st[1] = m /\ st[2] = i} \subseteq process_stops]_vars

\* an execution stopped for one batch while another active batch of the MO has
\* no stop on it, and the request naming that batch is refused
C33_Witness ==
    \E m \in ProductionMOs : \E i \in DOMAIN executions[m] :
        \E b \in ActiveBatches(DB, m) :
            /\ executions[m][i] = "stopped"
            /\ UnresolvedStops(DB, m, i) # {}
            /\ ~HasActiveStops(DB, m, i, {b})
            /\ ~ENABLED process_stop(m, i, b)

\* Stop requests naming any batch id, next to the batches of two MOs
NextStopRequest ==
    \/ \E m \in ProductionMOs : start_mo(m)
    \/ \E m \in MOs : create_batch(m, 1000)
    \/ \E b \in 1..MaxBatches, m \in ProductionMOs :
          \E i \in 1..bom_processes[m] : start_batch_process(b, i)
    \/ \E m \in ProductionMOs, batch_id \in BatchIds :
          \E i \in 1..bom_processes[m] : process_stop(m, i, batch_id)
    \/ \E st \in process_stops : process_resume(st)

SpecStopRequest == InitProcess /\ [][NextStopRequest]_vars

\* C34: a stop request naming a batch of another MO is not rejected: the
\* serializer falls back to every active batch of the execution's MO, and the
\* request is accepted wherever the request naming no batch is
C34_ForeignBatchFallsBack ==
    \A m \in ProductionMOs : \A i \in DOMAIN executions[m] :
        \A b \in DOMAIN batches :
            (batches[b].mo # m /\ ActiveBatches(DB, m) # {})
            => /\ ProcessStopCreateSerializer_validate(DB, m, b) = ActiveBatches(DB, m)
               /\ ENABLED process_stop(m, i, NoBatch) => ENABLED process_stop(m, i, b)

C36_StartedBatchMayComplete ==
    \A m \in ProductionMOs : \A i \in DOMAIN executions[m] :
        \A b \in BatchesOf(DB, m) :
            (/\ executions[m][i] = "stopped"
             /\ UnresolvedStops(DB, m, i) # {}
             /\ mo_status[m] = "in_progress"
             /\ batches[b].process_status[i] = "in_progress")
            => ENABLED complete_batch_process(b, i)

(***************************************************************************)
(* OK/Scrap/Rework completion                                              *)
(***************************************************************************)
\* quantities of a completion request, in grams
CompletionQuantities == {0, 3000}
CompletionInputs == {0, 3000, 6000}

\* the serializer's 0.01 kg, in grams
CompletionTolerance == 10

\* BatchProcessCompletionCreateSerializer.validate
BatchProcessCompletionCreateSerializer_validate(input, ok, scrap, rework) ==
    /\ input >= 0 /\ ok >= 0 /\ scrap >= 0 /\ rework >= 0
    /\ LET total == ok + scrap + rework
       IN ~(Max(total - input, input - total) > CompletionTolerance)

\* the supervisor of the rework batch: the active supervisor of the daily
\* status row of the execution's process, the requesting user without a row
rework_supervisor(d, k, user) ==
    IF d.daily_status[k] # NoDailyStatus
    THEN d.daily_status[k].active_supervisor
    ELSE user

\* BatchProcessCompletionViewSet.create by user for batch b on execution i of
\* its MO; completion records, receipt logs and the batch's scrap quantity are
\* not variables of the model
BatchProcessCompletion_create(b, i, user, input, ok, scrap, rework) ==
    /\ audited
    /\ b \in DOMAIN batches
    /\ i \in DOMAIN executions[batches[b].mo]
    /\ BatchProcessCompletionCreateSerializer_validate(input, ok, scrap, rework)
    /\ Commit(IF rework > 0
              THEN [DB EXCEPT !.rework_batches = @ \cup
                       {[original_batch |-> b, mo |-> batches[b].mo,
                         process_execution |-> i,
                         rework_quantity_kg |-> rework,
                         assigned_supervisor |-> rework_supervisor(DB, i, user),
                         rework_cycle_number |-> 1]}]
              ELSE DB)
    /\ UNCHANGED <<mo_priority, req>>

\* Completions next to the attendance job
NextRework ==
    \/ \E m \in ProductionMOs : start_mo(m)
    \/ \E m \in ProductionMOs : create_batch(m, 1000)
    \/ \E u \in Supervisors : login(u, CheckInDeadline)
    \/ check_supervisor_attendance
    \/ \E b \in 1..MaxBatches, u \in Supervisors, input \in CompletionInputs,
          ok \in CompletionQuantities, scrap \in CompletionQuantities,
          rework \in CompletionQuantities, m \in ProductionMOs :
          \E i \in 1..bom_processes[m] :
             BatchProcessCompletion_create(b, i, u, input, ok, scrap, rework)

SpecRework == InitProcess /\ [][NextRework]_vars

\* C37: a rework batch created by a completion is assigned to the active
\* supervisor the scheduler recorded for the process, and is assigned to the
\* acting user only when the scheduler's data name that user for the process
C37_ReworkGoesToActiveSupervisor ==
    [][\A rb \in rework_batches' \ rework_batches :
          \A u \in Supervisors :
             (\E b \in 1..MaxBatches, input \in CompletionInputs,
                 ok \in CompletionQuantities, scrap \in CompletionQuantities,
                 rework \in CompletionQuantities :
                 BatchProcessCompletion_create(b, rb.process_execution, u,
                                               input, ok, scrap, rework))
             => LET k == rb.process_execution
                IN /\ daily_status[k] # NoDailyStatus
                      => rb.assigned_supervisor = daily_status[k].active_supervisor
                   /\ rb.assigned_supervisor = u
                      => \/ daily_status[k].active_supervisor = u
                         \/ /\ WorkCenterSupervisorShift[k] # NoShiftConfig
                            /\ u \in {WorkCenterSupervisorShift[k].primary_supervisor,
                                      WorkCenterSupervisorShift[k].backup_supervisor}
                         \/ /\ MOSupervisorOverride[k] # NoShiftConfig
                            /\ u \in {MOSupervisorOverride[k].primary_supervisor,
                                      MOSupervisorOverride[k].backup_supervisor}]_vars

(***************************************************************************)
(* Logout cascade without failures                                         *)
(***************************************************************************)
NextCascade ==
    \/ \E m \in ProductionMOs : start_mo(m)
    \/ \E m \in ProductionMOs : BOM_create(m)
    \/ \E u \in Supervisors : login(u, CheckInDeadline)
    \/ \E m \in ProductionMOs : \E k \in 1..MaxProcesses : \E u \in Supervisors :
          assign_supervisor(m, k, u)
    \/ \E u \in Supervisors : logout_user(u, {})

SpecCascade == InitProcess /\ [][NextCascade]_vars

\* C38: after a logout of a supervisor, no process execution in status
\* pending, in_progress or on_hold is assigned to that supervisor
C38_NothingLeftAssigned ==
    [][\A u \in Supervisors :
          (\E fails \in SUBSET (ProductionMOs \X (1..MaxProcesses)) : logout_user(u, fails))
          => \A m \in ProductionMOs : \A k \in DOMAIN executions'[m] :
                executions'[m][k] \in {"pending", "in_progress", "on_hold"}
                => assigned_supervisor'[m][k] # u]_vars

\* C39: only an in_progress process execution becomes stopped: a pending, a
\* completed or a skipped one never does
C39_OnlyInProgressIsStopped ==
    [][\A m \in ProductionMOs : \A i \in DOMAIN executions[m] :
          (i \in DOMAIN executions'[m] /\ executions'[m][i] = "stopped"
           /\ executions[m][i] # "stopped")
          => executions[m][i] = "in_progress"]_vars

(***************************************************************************)
(* Overlapping stop requests                                               *)
(***************************************************************************)
\* ProcessStopViewSet.create up to its two refusals: the request of client r
\* is validated and checked against the rows there are now
process_stop_begin(r, m, i, batch_id) ==
    /\ audited
    /\ stop_requests[r] = NoStopRequest
    /\ i \in DOMAIN executions[m]
    /\ LET bs == ProcessStopCreateSerializer_validate(DB, m, batch_id)
       IN /\ bs # {}
          /\ ~AlreadyStopped(DB, m, i)
          /\ ~HasActiveStops(DB, m, i, bs)
          /\ Commit([DB EXCEPT !.stop_requests[r] =
                        [mo |-> m, execution |-> i, batches |-> bs]])
    /\ UNCHANGED <<mo_priority, req>>

\* ProcessStopViewSet.create, its transaction: the rows of the request of
\* client r are created and the execution is stopped
process_stop_finish(r) ==
    /\ audited
    /\ stop_requests[r] # NoStopRequest
    /\ LET sr == stop_requests[r]
       IN Commit([CreateStops(DB, sr.mo, sr.execution, sr.batches)
                     EXCEPT !.stop_requests[r] = NoStopRequest])
    /\ UNCHANGED <<mo_priority, req>>

NextStopRace ==
    \/ \E m \in ProductionMOs : start_mo(m)
    \/ \E m \in ProductionMOs : create_batch(m, 1000)
    \/ \E r \in StopRequesters, m \in ProductionMOs, batch_id \in BatchIds :
          \E i \in 1..bom_processes[m] : process_stop_begin(r, m, i, batch_id)
    \/ \E r \in StopRequesters : process_stop_finish(r)
    \/ \E st \in process_stops : process_resume(st)

SpecStopRace == InitProcess /\ [][NextStopRace]_vars

\* C40: a batch never has two unresolved ProcessStop rows for the same process
\* execution, however the stop requests overlap
C40_OneUnresolvedStopPerBatch ==
    \A m \in ProductionMOs : \A i \in DOMAIN executions[m] : \A b \in DOMAIN batches :
        Cardinality({st \in UnresolvedStops(DB, m, i) : st[3] = b}) <= 1

====
